---- MODULE Spec2Model ----
(***************************************************************************)
(* Model of Python/ThirdPartyData/GetAllThirdPartyDataForPartnerGQL.py:    *)
(* the partitioner, the bounded-retry wrapper, the multi-alias paginated   *)
(* fetch loop and the orchestrator that drives them.                       *)
(***************************************************************************)
EXTENDS Integers, Sequences, FiniteSets, TLC

(***************************************************************************)
(* Bounds of the model.                                                    *)
(***************************************************************************)
MaxLen == 4          \* longest input sequence given to partition_list on its own
MaxSize == 3         \* largest partition size given to partition_list on its own
MaxProviders == 2    \* provider ids the partner can have
MaxItems == 2        \* third-party data items one provider can hold
MaxCallSize == 2     \* largest configured partition_total_call_size
MaxAliasSize == 2    \* largest configured partition_gql_alias_query_size
MaxCount == 2        \* largest configured third_party_data_count
MaxRetries == 1      \* largest configured max_retries in a whole run
MaxRetriesAlone == 3 \* largest max_retries given to execute_with_retries on its own
MaxRounds == 2       \* rounds followed when the API can keep an alias active for ever
MaxPages == 3        \* requests followed in a first-party pagination loop
MaxAdvertisers == 2  \* advertisers the partner can have

Ids == <<"a", "b", "c", "d", "e", "f">>
Min(a, b) == IF a < b THEN a ELSE b
ProviderIds == {Ids[i] : i \in 1..Min(MaxProviders, Len(Ids))}
Elems == {"a", "b"}

VARIABLES
    pc,                              \* position of the script
    strings, partition_size,         \* arguments of a partition_list call made on its own
    partitions,                      \* its outcome
    partition_total_call_size,       \* line 34, set by the user
    partition_gql_alias_query_size,  \* line 37, set by the user
    third_party_data_count,          \* line 40, set by the user
    max_retries,                     \* line 43, set by the user
    server_items,                    \* the API's data: provider (advertiser) id -> number of items
    provider_list,                   \* line 278
    partitioned_calls_list,          \* line 280
    index,                           \* line 286: outer chunks already fetched
    partitioned_provider_list,       \* line 287
    alias_has_more_map,              \* line 192
    alias_cursor_map,                \* line 193
    third_party_data_list,           \* line 191
    active_aliases,                  \* line 197
    query,                           \* lines 202-248: the aliased sub-queries of the round
    try_count,                       \* line 105
    response,                        \* line 108: the last transport response
    calls,                           \* transport calls made for the current logical request
    failed_calls,                    \* those of them that came back with ok = False
    partner_data,                    \* line 253
    total_third_party_data_list,     \* line 45
    output_file,                     \* line 304: the contents written, one entry per write
    error,                           \* the exception that ended the run, or "none"
    rounds,                          \* rounds of the while loop of the current fetch
    request_failed,                  \* some transport call of the current fetch did not succeed
    api,                             \* the API answers "sound" pages, or "any" page-info
    http,                            \* line 74: the HTTP response of an execute_gql_request
                                     \* call made on its own
    provider_nodes,                  \* line 159: nodes, while the discovery function runs
    queried,                         \* the <<chunk, alias, provider id>> put into a query so far
    \* GetAdvertiserFirstPartyDataGQL.py
    has_next,                        \* line 125
    cursor,                          \* line 126
    first_party_data,                \* line 128
    advertiser_data,                 \* line 131
    after_clause,                    \* line 82: the cursor put into the last query, if any
    \* GetPartnerFirstPartyDataGQL.py (partner_data of its line 165 is the variable above)
    advertiser_has_next,             \* line 158
    advertiser_cursor,               \* line 159
    first_party_data_list,           \* line 161
    advertisers,                     \* line 167
    advertiser_index,                \* line 169: advertisers of the page already handled
    advertiser_id,                   \* line 170
    advertiser_name,                 \* line 171
    first_party_has_next,            \* line 174
    first_party_cursor,              \* line 175
    first_party_data_response,       \* line 179
    variables,                       \* lines 99-103, 140-145: the variables of the last request
    advertiser_count,                \* line 33, set by the user
    first_party_data_count           \* line 34, set by the user

cfgvars == <<partition_total_call_size, partition_gql_alias_query_size,
             third_party_data_count, max_retries, server_items, api, http>>
partvars == <<strings, partition_size, partitions>>
orchvars == <<provider_list, partitioned_calls_list, index,
              total_third_party_data_list, output_file>>
fetchvars == <<partitioned_provider_list, alias_has_more_map, alias_cursor_map,
               third_party_data_list, active_aliases, query, rounds>>
retryvars == <<try_count, response, calls, failed_calls, partner_data>>

advvars == <<has_next, cursor, first_party_data, advertiser_data, after_clause>>
pfpvars == <<advertiser_has_next, advertiser_cursor, first_party_data_list, advertisers,
             advertiser_index, advertiser_id, advertiser_name, first_party_has_next,
             first_party_cursor, first_party_data_response, variables,
             advertiser_count, first_party_data_count>>
fpvars == <<advvars, pfpvars>>
\* the variables that only the third-party script uses
tpvars == <<partvars, partition_total_call_size, partition_gql_alias_query_size,
            third_party_data_count, max_retries, server_items, api,
            provider_list, partitioned_calls_list, index,
            total_third_party_data_list, fetchvars, try_count, failed_calls,
            request_failed, provider_nodes, queried>>

vars == <<pc, partvars, cfgvars, orchvars, fetchvars, retryvars, error, request_failed,
          provider_nodes, queried, fpvars>>

(***************************************************************************)
(* Python helpers.                                                         *)
(***************************************************************************)
\* range(start, stop, step) as the list of its values
RECURSIVE Range(_, _, _)
Range(start, stop, step) ==
    IF (step > 0 /\ start < stop) \/ (step < 0 /\ start > stop)
    THEN <<start>> \o Range(start + step, stop, step)
    ELSE <<>>

\* s[lo:hi] for 0 <= lo <= hi: 0-based, hi exclusive, clamped to len(s)
Slice(s, lo, hi) == SubSeq(s, lo + 1, Min(hi, Len(s)))

\* sequences over S of length at most n
SeqsUpTo(S, n) == UNION {[1..k -> S] : k \in 0..n}

RECURSIVE Concat(_)
Concat(ss) == IF ss = <<>> THEN <<>> ELSE Head(ss) \o Concat(Tail(ss))

(***************************************************************************)
(* partition_list                                                          *)
(***************************************************************************)
PartitionSizeInvalid_zero_only(size) == size = 0
\* line 182: if partition_size <= 0
PartitionSizeInvalid(size) == size <= 0

PartitionSlices_drop_short(strs, size) ==
    LET starts == Range(0, Len(strs) - size + 1, size)
    IN [k \in 1..Len(starts) |-> Slice(strs, starts[k], starts[k] + size)]
PartitionSlices_trailing_empty(strs, size) ==
    LET starts == Range(0, Len(strs) + 1, size)
    IN [k \in 1..Len(starts) |-> Slice(strs, starts[k], starts[k] + size)]
\* line 184: [strings[i:i + partition_size] for i in range(0, len(strings), partition_size)]
PartitionSlices(strs, size) ==
    LET starts == Range(0, Len(strs), size)
    IN [k \in 1..Len(starts) |-> Slice(strs, starts[k], starts[k] + size)]

\* the outcome of a call: the list returned, or the exception raised
partition_list(strs, size) ==
    IF PartitionSizeInvalid(size)
    THEN [raised |-> "ValueError", value |-> <<>>]
    ELSE [raised |-> "none", value |-> PartitionSlices(strs, size)]

NotCalled == [raised |-> "not_called", value |-> <<>>]

(***************************************************************************)
(* Python values: None, and dicts as functions from keys to values.        *)
(***************************************************************************)
None == [kind |-> "None", fields |-> <<>>]
Dict(f) == [kind |-> "dict", fields |-> f]
EmptyDict == Dict(<<>>)
\* d.get(k, default) on a dict d
DictGet(d, k, default) == IF k \in DOMAIN d.fields THEN d.fields[k] ELSE default

\* no transport call made yet
NoResponse == [ok |-> FALSE, data |-> None, errors |-> <<>>]

\* the body of an HTTP response: nothing, text that is not JSON, or a JSON object
EmptyBody == [kind |-> "empty", content |-> EmptyDict]
MalformedBody == [kind |-> "malformed", content |-> EmptyDict]
JsonBody(c) == [kind |-> "json", content |-> Dict(c)]
\* no HTTP response received yet
NoHttp == [ok |-> FALSE, body |-> [kind |-> "none", content |-> EmptyDict]]

\* a cursor is None or an opaque token; the API's tokens are <<offset>>
NoCursor == <<>>

\* a Python string, as the sequence of its characters
Str(chars) == [kind |-> "str", fields |-> chars]
\* line 82 "if cursor": None and the empty string are false
Truthy(v) == v.kind = "str" /\ v.fields # <<>>

\* GetAdvertiserFirstPartyDataGQL.py before query_advertiser is called
AdvertiserScriptIdle ==
    /\ has_next = TRUE
    /\ cursor = None
    /\ first_party_data = <<>>
    /\ advertiser_data = None
    /\ after_clause = None

\* GetPartnerFirstPartyDataGQL.py before query_partner_first_party_data is called
PartnerScriptIdle ==
    /\ advertiser_has_next = TRUE
    /\ advertiser_cursor = None
    /\ first_party_data_list = <<>>
    /\ advertisers = <<>>
    /\ advertiser_index = 0
    /\ advertiser_id = None
    /\ advertiser_name = None
    /\ first_party_has_next = TRUE
    /\ first_party_cursor = None
    /\ first_party_data_response = None
    /\ variables = None
    /\ advertiser_count = 1
    /\ first_party_data_count = 1

\* the script before the run starts: module-level state of lines 34-45
ScriptIdle ==
    /\ partition_total_call_size = 1
    /\ partition_gql_alias_query_size = 1
    /\ third_party_data_count = 1
    /\ max_retries = 0
    /\ server_items = [p \in ProviderIds |-> 0]
    /\ provider_list = <<>>
    /\ partitioned_calls_list = <<>>
    /\ index = 0
    /\ partitioned_provider_list = <<>>
    /\ alias_has_more_map = <<>>
    /\ alias_cursor_map = <<>>
    /\ third_party_data_list = <<>>
    /\ active_aliases = <<>>
    /\ query = <<>>
    /\ try_count = 0
    /\ response = NoResponse
    /\ calls = 0
    /\ failed_calls = 0
    /\ partner_data = None
    /\ total_third_party_data_list = <<>>
    /\ output_file = <<>>
    /\ error = "none"
    /\ rounds = 0
    /\ request_failed = FALSE
    /\ api = "sound"
    /\ http = NoHttp
    /\ provider_nodes = <<>>
    /\ queried = {}

(***************************************************************************)
(* partition_list called on its own on arbitrary arguments.                *)
(***************************************************************************)
InitPartition ==
    /\ pc = "partition"
    /\ strings \in SeqsUpTo(Elems, MaxLen)
    /\ partition_size \in -1..MaxSize
    /\ partitions = NotCalled
    /\ ScriptIdle
    /\ AdvertiserScriptIdle
    /\ PartnerScriptIdle

CallPartitionList ==
    /\ pc = "partition"
    /\ partitions' = partition_list(strings, partition_size)
    /\ pc' = "partitioned"
    /\ UNCHANGED <<strings, partition_size, cfgvars, orchvars, fetchvars, retryvars,
                   error, request_failed, provider_nodes, queried, fpvars>>

NextPartition == CallPartitionList

SpecPartition == InitPartition /\ [][NextPartition]_vars

(***************************************************************************)
(* The GraphQL API behind the transport (the other end of line 74).        *)
(***************************************************************************)
\* the items the API holds for the providers of a filter, in filter order
RECURSIVE AllNodes(_)
AllNodes(filter) ==
    IF filter = <<>> THEN <<>>
    ELSE [j \in 1..server_items[Head(filter)] |-> <<Head(filter), j>>]
         \o AllNodes(Tail(filter))

\* the data sets the API can hold. Provider ids are interchangeable and
\* discovery returns them in any order, so only the data sets whose item counts
\* do not increase along Ids are listed: every other one is a renaming of one.
ServerData ==
    {f \in [ProviderIds -> 0..MaxItems] :
        \A i, j \in 1..Len(Ids) :
            (i < j /\ Ids[i] \in ProviderIds /\ Ids[j] \in ProviderIds) => f[Ids[i]] >= f[Ids[j]]}

\* json.dumps of a value put into the query text, and the API's reading of it
JsonDumps(v) == [json |-> v]
JsonLoads(j) == j.json

\* thirdPartyData(first:, after:, where: {provider: {id: {in: ...}}}) {nodes pageInfo}
ServerPage(sub) ==
    LET all == AllNodes(JsonLoads(sub.provider_id_filter))
        after == JsonLoads(sub.after)
        start == IF after = NoCursor THEN 0 ELSE after[1]
        nodes == SubSeq(all, start + 1, Min(start + sub.first, Len(all)))
    IN [nodes |-> nodes,
        pageInfo |-> [hasNextPage |-> start + sub.first < Len(all),
                      endCursor |-> IF nodes = <<>> THEN NoCursor
                                    ELSE <<start + Len(nodes)>>]]

\* the partner object answering a query: one page per aliased sub-query
ServerPartner(q) ==
    Dict([a \in {q[i].alias : i \in 1..Len(q)} |->
            ServerPage(CHOOSE sub \in {q[i] : i \in 1..Len(q)} : sub.alias = a)])

(***************************************************************************)
(* execute_gql_request: what one transport call can return.                *)
(***************************************************************************)
ApiErrors == <<"error">>

\* the bodies the API can send in answer to q
ApiBodies(q) ==
    { EmptyBody,
      MalformedBody,                                              \* e.g. an HTML error page
      JsonBody(<<>>),                                             \* {}
      JsonBody("errors" :> ApiErrors),
      JsonBody("data" :> None),                                   \* {"data": null}
      JsonBody(("data" :> None) @@ ("errors" :> ApiErrors)),
      JsonBody("data" :> EmptyDict),
      JsonBody(("data" :> Dict("partner" :> None)) @@ ("errors" :> ApiErrors)),
      JsonBody("data" :> Dict("partner" :> EmptyDict)),
      JsonBody("data" :> Dict("partner" :> ServerPartner(q))) }

\* every HTTP response: status ok or not, with any of the bodies
AllHttpResponses(q) == [ok : BOOLEAN, body : ApiBodies(q)]

\* the HTTP response of a healthy API to q
GoodHttp(q) == [ok |-> TRUE, body |-> JsonBody("data" :> Dict("partner" :> ServerPartner(q)))]

\* the HTTP responses of an API that answers, one for each way a call can end
SoundHttpResponses(q) ==
    { [ok |-> FALSE, body |-> JsonBody("errors" :> ApiErrors)],
      [ok |-> FALSE, body |-> MalformedBody],
      [ok |-> TRUE, body |-> EmptyBody],
      [ok |-> TRUE, body |-> JsonBody("data" :> None)],
      [ok |-> TRUE, body |-> JsonBody(("data" :> Dict("partner" :> None))
                                      @@ ("errors" :> ApiErrors))],
      [ok |-> TRUE, body |-> JsonBody("data" :> Dict("partner" :> EmptyDict))],
      GoodHttp(q) }

\* the pages an API bound by nothing can return for an alias in round r: no
\* node and a null end cursor, or a node and the cursor after it, either of
\* them with any hasNextPage
AnyPages(alias, r) ==
    {[nodes |-> IF c = NoCursor THEN <<>> ELSE <<<<"x", c[1]>>>>,
      pageInfo |-> [hasNextPage |-> b, endCursor |-> c]] :
        b \in BOOLEAN, c \in {NoCursor, <<10 * alias[2] + r>>}}

\* a page that claims more data, sent for an alias the query did not ask for
UnaskedPage(alias, r) ==
    [nodes |-> <<<<"x", 10 * alias[2] + r>>>>,
     pageInfo |-> [hasNextPage |-> TRUE, endCursor |-> <<10 * alias[2] + r>>]]

\* the partner objects such an API can return to q in round r: for each alias
\* of q any page or no entry, for each other alias no entry or an unasked page
AnyPartners(q, aliases, r) ==
    LET asked == {q[i].alias : i \in 1..Len(q)}
        PagesOf(a) == IF a \in asked THEN AnyPages(a, r) ELSE {UnaskedPage(a, r)}
    IN UNION {{Dict(f) : f \in {g \in [present -> UNION {PagesOf(a) : a \in present}] :
                                   \A a \in present : g[a] \in PagesOf(a)}} :
                present \in SUBSET aliases}

\* the HTTP responses met during a run
HttpResponses(q) ==
    IF api = "sound" THEN SoundHttpResponses(q)
    ELSE { [ok |-> FALSE, body |-> JsonBody("errors" :> ApiErrors)],
           [ok |-> TRUE, body |-> JsonBody("data" :> None)] }
         \cup {[ok |-> TRUE, body |-> JsonBody("data" :> Dict("partner" :> partner))] :
                  partner \in AnyPartners(q, DOMAIN alias_has_more_map, rounds)}

\* line 75: json.loads(response.content) if len(response.content) > 0 else {}
JsonContent(body) ==
    IF body.kind = "empty" THEN [raised |-> "none", content |-> EmptyDict]
    ELSE IF body.kind = "malformed" THEN [raised |-> "JSONDecodeError", content |-> EmptyDict]
    ELSE [raised |-> "none", content |-> body.content]

\* lines 61-87: the (ok, GqlResponse(data, errors)) returned, or the exception raised
execute_gql_request(h) ==
    LET parsed == JsonContent(h.body)
    IN IF parsed.raised # "none"
       THEN [raised |-> parsed.raised, response |-> NoResponse]
       ELSE [raised |-> "none",
             response |-> [ok |-> h.ok,
                           data |-> DictGet(parsed.content, "data", EmptyDict),
                           errors |-> DictGet(parsed.content, "errors", <<>>)]]

\* what execute_gql_request can return during a run
TransportResponses(q) ==
    {execute_gql_request(h).response :
        h \in {g \in HttpResponses(q) : execute_gql_request(g).raised = "none"}}

\* the response is the one a healthy API gives to q
IsSuccess(resp, q) == resp = execute_gql_request(GoodHttp(q)).response

(***************************************************************************)
(* execute_with_retries                                                    *)
(***************************************************************************)
\* line 106: while try_count <= max_retries
RetryLoopGuard(tc, m) == tc <= m

RetriesExceeded_early(tc, m) == tc >= m
\* line 124: if try_count > max_retries
RetriesExceeded(tc, m) == tc > m

ExtractPartner_default(data) == EmptyDict
\* line 112: response.data.get("partner", {})
ExtractPartner(data) == DictGet(data, "partner", EmptyDict)

\* lines 110-118: "return" the partner data, or "retry" (not ok, or the
\* AttributeError of .get on a data that is None)
AttemptOutcome(resp) ==
    IF resp.ok
    THEN IF resp.data.kind = "None" THEN "retry" ELSE "return"
    ELSE "retry"

NextTryCount_stuck(tc) == tc
\* line 121: try_count += 1
NextTryCount(tc) == tc + 1

\* no try/except encloses lines 276-305: an exception ends the script
UncaughtException_swallowed(e) == [pc |-> "for", error |-> e]
UncaughtException(e) == [pc |-> "aborted", error |-> e]

\* one iteration of the while loop of lines 106-128
ExecuteWithRetriesAttempt ==
    /\ pc = "attempt"
    /\ RetryLoopGuard(try_count, max_retries)
    /\ \E h \in HttpResponses(query) :
        LET got == execute_gql_request(h)
            resp == got.response
        IN /\ calls' = calls + 1
           /\ IF got.raised # "none"
              THEN \* line 108 is outside the try: the exception leaves the wrapper
                   /\ pc' = UncaughtException(got.raised).pc
                   /\ error' = UncaughtException(got.raised).error
                   /\ request_failed' = TRUE
                   /\ UNCHANGED <<response, failed_calls, try_count, partner_data>>
              ELSE /\ response' = resp
                   /\ failed_calls' = failed_calls + (IF resp.ok THEN 0 ELSE 1)
                   /\ request_failed' = (request_failed \/ ~IsSuccess(resp, query))
                   /\ IF AttemptOutcome(resp) = "return"
                      THEN /\ partner_data' = ExtractPartner(resp.data)
                           /\ pc' = "process"
                           /\ UNCHANGED <<try_count, error>>
                      ELSE /\ try_count' = NextTryCount(try_count)
                           /\ partner_data' = partner_data
                           /\ IF RetriesExceeded(try_count', max_retries)
                              THEN /\ pc' = UncaughtException("RetryExhausted").pc
                                   /\ error' = UncaughtException("RetryExhausted").error
                              ELSE IF RetryLoopGuard(try_count', max_retries)
                              THEN /\ pc' = "attempt"
                                   /\ error' = error
                              ELSE \* line 131
                                   /\ pc' = UncaughtException("Unexpected").pc
                                   /\ error' = UncaughtException("Unexpected").error
    /\ UNCHANGED <<partvars, fpvars, provider_nodes, queried, cfgvars, orchvars, fetchvars>>

(***************************************************************************)
(* get_partner_third_party_data                                            *)
(***************************************************************************)
\* line 192: f"mygroup_{idx + 1}_alias" for the 0-based idx
AliasOf(idx) == <<"mygroup", idx + 1, "alias">>
GroupIndex_first(alias) == 0
\* line 207: int(alias.split("_")[1]) - 1
GroupIndex(alias) == alias[2] - 1
\* the keys of alias_has_more_map in insertion order
AliasList(n) == [i \in 1..n |-> AliasOf(i - 1)]

ActiveAliases_all(has_more, n) == AliasList(n)
\* line 197: [alias for alias, has_more in alias_has_more_map.items() if has_more]
ActiveAliases(has_more, n) == SelectSeq(AliasList(n), LAMBDA a : has_more[a])

\* lines 206-246: the sub-query written for one active alias
SubQuery(alias, groups, cursors, count) ==
    [alias |-> alias,
     first |-> count,
     after |-> JsonDumps(cursors[alias]),
     provider_id_filter |-> JsonDumps(groups[GroupIndex(alias) + 1])]

\* the <<chunk, alias, provider id>> that the query q of outer chunk idx asks for
QueriedBy(idx, q) ==
    UNION {{<<idx, q[i].alias, JsonLoads(q[i].provider_id_filter)[j]>> :
                j \in 1..Len(JsonLoads(q[i].provider_id_filter))} : i \in 1..Len(q)}

\* lines 258-262 with their defaults: an alias missing from the partner data
\* reads as no nodes, hasNextPage False, endCursor None
EmptyPage == [nodes |-> <<>>, pageInfo |-> [hasNextPage |-> FALSE, endCursor |-> NoCursor]]
AliasData(pdata, alias) == DictGet(pdata, alias, EmptyPage)

NewHasMore_false(page_info) == FALSE
\* lines 261, 268: alias_has_more_map[alias] = page_info.get("hasNextPage", False)
NewHasMore(page_info) == page_info.hasNextPage

ProcessedAliases_every(active) == DOMAIN alias_has_more_map
\* line 257: for alias in active_aliases
ProcessedAliases(active) == {active[i] : i \in 1..Len(active)}

AnyHasMore_always(has_more) == TRUE
\* line 195: any(alias_has_more_map.values())
AnyHasMore(has_more) == \E a \in DOMAIN has_more : has_more[a]

NewCursor_stuck(page_info) == NoCursor
\* lines 262, 269
NewCursor(page_info) == page_info.endCursor

Extend_prepend(list, nodes) == nodes \o list
\* line 265: third_party_data_list.extend(nodes)
Extend(list, nodes) == list \o nodes

\* lines 191-193, entered from line 292 of the for loop
StartFetch ==
    /\ pc = "for"
    /\ index < Len(partitioned_calls_list)
    /\ LET inner == partition_list(partitioned_calls_list[index + 1],
                                   partition_gql_alias_query_size)
       IN IF inner.raised # "none"
          THEN /\ pc' = UncaughtException(inner.raised).pc
               /\ error' = UncaughtException(inner.raised).error
               /\ UNCHANGED <<fetchvars, request_failed>>
          ELSE /\ partitioned_provider_list' = inner.value
               /\ third_party_data_list' = <<>>
               /\ alias_has_more_map' =
                    [a \in {AliasOf(i - 1) : i \in 1..Len(inner.value)} |-> TRUE]
               /\ alias_cursor_map' =
                    [a \in {AliasOf(i - 1) : i \in 1..Len(inner.value)} |-> NoCursor]
               /\ rounds' = 0
               /\ request_failed' = FALSE
               /\ pc' = "while"
               /\ UNCHANGED <<active_aliases, query, error>>
    /\ UNCHANGED <<partvars, fpvars, provider_nodes, queried, cfgvars, orchvars, retryvars>>

\* lines 195-253: one more round, up to the call of execute_with_retries
BuildQuery ==
    /\ pc = "while"
    /\ AnyHasMore(alias_has_more_map)
    /\ api = "sound" \/ rounds < MaxRounds  \* an API bound by nothing is followed MaxRounds rounds
    /\ LET active == ActiveAliases(alias_has_more_map, Len(partitioned_provider_list))
       IN /\ active_aliases' = active
          /\ query' = [i \in 1..Len(active) |->
                         SubQuery(active[i], partitioned_provider_list,
                                  alias_cursor_map, third_party_data_count)]
    /\ queried' = queried \cup QueriedBy(index, query')
    /\ rounds' = rounds + 1
    /\ try_count' = 0
    /\ response' = NoResponse
    /\ calls' = 0
    /\ failed_calls' = 0
    /\ pc' = "attempt"
    /\ UNCHANGED <<partvars, fpvars, provider_nodes, cfgvars, orchvars, partitioned_provider_list,
                   alias_has_more_map, alias_cursor_map, third_party_data_list,
                   partner_data, error, request_failed>>

\* lines 257-269: the for loop over the active aliases
ProcessResponse ==
    /\ pc = "process"
    /\ IF partner_data.kind = "None"
       THEN \* line 258: None.get
            /\ pc' = UncaughtException("AttributeError").pc
            /\ error' = UncaughtException("AttributeError").error
            /\ UNCHANGED <<alias_has_more_map, alias_cursor_map, third_party_data_list>>
       ELSE LET act == ProcessedAliases(active_aliases)
            IN /\ third_party_data_list' =
                    Extend(third_party_data_list,
                           Concat([i \in 1..Len(active_aliases) |->
                                     AliasData(partner_data, active_aliases[i]).nodes]))
               /\ alias_has_more_map' =
                    [a \in DOMAIN alias_has_more_map |->
                        IF a \in act
                        THEN NewHasMore(AliasData(partner_data, a).pageInfo)
                        ELSE alias_has_more_map[a]]
               /\ alias_cursor_map' =
                    [a \in DOMAIN alias_cursor_map |->
                        IF a \in act
                        THEN NewCursor(AliasData(partner_data, a).pageInfo)
                        ELSE alias_cursor_map[a]]
               /\ pc' = "while"
               /\ error' = error
    \* execute_with_retries has returned: its locals are gone
    /\ try_count' = 0
    /\ response' = NoResponse
    /\ calls' = 0
    /\ failed_calls' = 0
    /\ UNCHANGED <<partvars, fpvars, provider_nodes, queried, cfgvars, orchvars, partitioned_provider_list,
                   active_aliases, query, rounds, partner_data, request_failed>>

\* lines 195, 271-273: the loop ends and the fetch returns to the for loop
FinishFetch ==
    /\ pc = "while"
    /\ ~AnyHasMore(alias_has_more_map)
    /\ total_third_party_data_list' =
            Extend(total_third_party_data_list, third_party_data_list)
    /\ index' = index + 1
    /\ pc' = "for"
    /\ UNCHANGED <<partvars, fpvars, provider_nodes, queried, cfgvars, provider_list, partitioned_calls_list,
                   output_file, fetchvars, retryvars, error, request_failed>>

(***************************************************************************)
(* query_partner_third_party_data                                          *)
(***************************************************************************)
\* orders in which list(set) can enumerate a set
Orders(S) == {s \in [1..Cardinality(S) -> S] : \A i, j \in 1..Cardinality(S) : s[i] = s[j] => i = j}

\* the position of an id in Ids, 0 for the empty id
IdRank(id) == IF id = "" THEN 0 ELSE CHOOSE i \in 1..Len(Ids) : Ids[i] = id

\* the node lists the API can answer the discovery query with: ids repeated,
\* ids empty. Lines 160-164 put the ids into a set, so the order of the nodes
\* is lost there: only the lists in the order of Ids are enumerated.
ProviderNodes ==
    {s \in SeqsUpTo(ProviderIds \cup {""}, MaxProviders + 1) :
        \A i, j \in 1..Len(s) : i < j => IdRank(s[i]) <= IdRank(s[j])}

ProviderIdSet_keep_empty(nodes) == {nodes[i] : i \in 1..Len(nodes)}
\* lines 160-164: the ids of the nodes, without the empty ones
ProviderIdSet(nodes) == {nodes[i] : i \in 1..Len(nodes)} \ {""}

\* lines 277-280: get_user_third_party_data_providers, then the outer partition
DiscoverProviders ==
    /\ pc = "discover"
    /\ calls' = 1      \* line 152: one call of execute_gql_request, no retry wrapper
    /\ \/ \* line 156: the request failed
          /\ pc' = UncaughtException("FetchProvidersFailed").pc
          /\ error' = UncaughtException("FetchProvidersFailed").error
          /\ failed_calls' = 1
          /\ UNCHANGED provider_nodes
       \/ \* line 152: the body is not JSON and execute_gql_request raises
          /\ pc' = UncaughtException("JSONDecodeError").pc
          /\ error' = UncaughtException("JSONDecodeError").error
          /\ UNCHANGED <<failed_calls, provider_nodes>>
       \/ \* line 159: ok, but the data has no partner / providers object
          /\ pc' = UncaughtException("KeyError").pc
          /\ error' = UncaughtException("KeyError").error
          /\ UNCHANGED <<failed_calls, provider_nodes>>
       \/ \* line 159: the nodes of the response
          /\ provider_nodes' \in ProviderNodes
          /\ pc' = "collect"
          /\ UNCHANGED <<failed_calls, error>>
    /\ UNCHANGED <<partvars, fpvars, queried, cfgvars, orchvars, fetchvars, try_count, response,
                   partner_data, request_failed>>

\* lines 160-170 and 277-280: the ids are deduplicated, returned as a list and
\* partitioned into the outer chunks
CollectProviderIds ==
    /\ pc = "collect"
    /\ \E ids \in Orders(ProviderIdSet(provider_nodes)) :
         LET outer == partition_list(ids, partition_total_call_size)
         IN /\ provider_list' = ids
            /\ IF outer.raised # "none"
               THEN /\ pc' = UncaughtException(outer.raised).pc
                    /\ error' = UncaughtException(outer.raised).error
                    /\ UNCHANGED partitioned_calls_list
               ELSE /\ partitioned_calls_list' = outer.value
                    /\ pc' = "for"
                    /\ error' = error
    \* get_user_third_party_data_providers has returned: its locals are gone
    /\ provider_nodes' = <<>>
    /\ calls' = 0
    /\ UNCHANGED <<partvars, fpvars, queried, cfgvars, index, total_third_party_data_list, output_file,
                   fetchvars, try_count, response, failed_calls, partner_data, request_failed>>

\* lines 298-305: the for loop is over, the results are written
WriteOutput ==
    /\ pc = "for"
    /\ index >= Len(partitioned_calls_list)
    /\ output_file' = Append(output_file, total_third_party_data_list)
    /\ pc' = "done"
    /\ UNCHANGED <<partvars, fpvars, provider_nodes, queried, cfgvars, provider_list, partitioned_calls_list, index,
                   total_third_party_data_list, fetchvars, retryvars, error,
                   request_failed>>

Init ==
    /\ pc = "discover"
    /\ strings = <<>>
    /\ partition_size = 1
    /\ partitions = NotCalled
    /\ partition_total_call_size \in 0..MaxCallSize
    /\ partition_gql_alias_query_size \in 0..MaxAliasSize
    /\ third_party_data_count \in 1..MaxCount
    /\ max_retries \in {0, MaxRetries}   \* no retry, and the largest bound (execute_with_retries
                                          \* is run on every bound in SpecRetry)
    /\ server_items \in ServerData
    /\ provider_list = <<>>
    /\ partitioned_calls_list = <<>>
    /\ index = 0
    /\ partitioned_provider_list = <<>>
    /\ alias_has_more_map = <<>>
    /\ alias_cursor_map = <<>>
    /\ third_party_data_list = <<>>
    /\ active_aliases = <<>>
    /\ query = <<>>
    /\ try_count = 0
    /\ response = NoResponse
    /\ calls = 0
    /\ failed_calls = 0
    /\ partner_data = None
    /\ total_third_party_data_list = <<>>
    /\ output_file = <<>>
    /\ error = "none"
    /\ rounds = 0
    /\ request_failed = FALSE
    /\ api = "sound"
    /\ http = NoHttp
    /\ provider_nodes = <<>>
    /\ queried = {}
    /\ AdvertiserScriptIdle
    /\ PartnerScriptIdle

Next ==
    \/ DiscoverProviders
    \/ CollectProviderIds
    \/ StartFetch
    \/ BuildQuery
    \/ ExecuteWithRetriesAttempt
    \/ ProcessResponse
    \/ FinishFetch
    \/ WriteOutput

Spec == Init /\ [][Next]_vars

(***************************************************************************)
(* execute_with_retries on its own: the call of line 253 in the first      *)
(* round of a fetch whose single alias group holds all the providers.      *)
(***************************************************************************)
\* the state at line 253 in the first round of such a fetch
FirstRound ==
    /\ strings = <<>>
    /\ partition_size = 1
    /\ partitions = NotCalled
    /\ partition_total_call_size = MaxProviders
    /\ partition_gql_alias_query_size = MaxProviders
    /\ third_party_data_count \in 1..MaxCount
    /\ max_retries \in 0..MaxRetriesAlone
    /\ server_items \in ServerData
    /\ provider_list \in Orders(ProviderIds)
    /\ partitioned_calls_list = <<provider_list>>
    /\ index = 0
    /\ partitioned_provider_list = <<provider_list>>
    /\ alias_has_more_map = [a \in {AliasOf(0)} |-> TRUE]
    /\ alias_cursor_map = [a \in {AliasOf(0)} |-> NoCursor]
    /\ third_party_data_list = <<>>
    /\ active_aliases = <<AliasOf(0)>>
    /\ query = <<SubQuery(AliasOf(0), partitioned_provider_list, alias_cursor_map,
                          third_party_data_count)>>
    /\ try_count = 0
    /\ response = NoResponse
    /\ calls = 0
    /\ failed_calls = 0
    /\ partner_data = None
    /\ total_third_party_data_list = <<>>
    /\ output_file = <<>>
    /\ error = "none"
    /\ rounds = 1
    /\ request_failed = FALSE
    /\ api = "sound"
    /\ http = NoHttp
    /\ provider_nodes = <<>>
    /\ queried = QueriedBy(index, query)
    /\ AdvertiserScriptIdle
    /\ PartnerScriptIdle

InitRetry == pc = "attempt" /\ FirstRound

NextRetry == ExecuteWithRetriesAttempt

SpecRetry == InitRetry /\ [][NextRetry]_vars

(***************************************************************************)
(* execute_gql_request on its own: the query of such a first round, sent   *)
(* once, with any HTTP response coming back.                               *)
(***************************************************************************)
InitTransport == pc = "request" /\ FirstRound

CallExecuteGqlRequest ==
    /\ pc = "request"
    /\ \E h \in AllHttpResponses(query) :
        LET got == execute_gql_request(h)
        IN /\ http' = h
           /\ calls' = calls + 1
           /\ IF got.raised # "none"
              THEN /\ pc' = UncaughtException(got.raised).pc
                   /\ error' = UncaughtException(got.raised).error
                   /\ UNCHANGED response
              ELSE /\ pc' = "responded"
                   /\ response' = got.response
                   /\ error' = error
    /\ UNCHANGED <<partvars, fpvars, provider_nodes, queried, partition_total_call_size, partition_gql_alias_query_size,
                   third_party_data_count, max_retries, server_items, api,
                   orchvars, fetchvars, try_count, failed_calls, partner_data,
                   request_failed>>

NextTransport == CallExecuteGqlRequest

SpecTransport == InitTransport /\ [][NextTransport]_vars

\* C11: execute_gql_request returns for every HTTP response, with ok the
\* HTTP status; for an empty body and for a body that is not JSON it returns
\* data = {} and errors = [] instead of raising.
C11_TransportNeverRaises ==
    pc # "request" =>
        /\ pc = "responded"
        /\ error = "none"
        /\ response.ok = http.ok
        /\ http.body.kind \in {"empty", "malformed"} =>
              (response.data = EmptyDict /\ response.errors = <<>>)

(***************************************************************************)
(* Properties of execute_with_retries.                                     *)
(***************************************************************************)
\* the data of the response holds the expected top-level field
HasPartnerField(resp) ==
    resp.ok /\ resp.data.kind = "dict" /\ "partner" \in DOMAIN resp.data.fields

\* C1: with retry bound M, a logical request never takes more than M + 1
\* transport calls; while every call so far has failed (ok false) the wrapper
\* keeps calling until call M + 1, and after M + 1 failed calls it has raised
\* the terminal retries-exhausted error, which is raised at no other count.
C1_RetryBound ==
    /\ calls <= max_retries + 1
    /\ (failed_calls = calls /\ calls < max_retries + 1) => pc = "attempt"
    /\ (failed_calls = calls /\ calls = max_retries + 1) =>
            (pc = "aborted" /\ error = "RetryExhausted")
    /\ error = "RetryExhausted" => (failed_calls <= calls /\ calls = max_retries + 1)
    /\ error \in {"none", "RetryExhausted", "JSONDecodeError"}

C1_Witness ==
    /\ max_retries = 3
    /\ calls = 4
    /\ failed_calls = 4
    /\ error = "RetryExhausted"

\* C2: when call k is the first to succeed (the k - 1 calls before it were
\* consumed as retries), the wrapper has returned after exactly k calls with the
\* partner field of that k-th response, and the success consumed no attempt.
C2_EarlySuccess ==
    /\ pc = "attempt" => calls = try_count
    /\ (calls >= 1 /\ HasPartnerField(response)) =>
        /\ pc = "process"
        /\ calls = try_count + 1
        /\ calls <= max_retries + 1
        /\ partner_data = response.data.fields["partner"]
        /\ error = "none"

C2_Witness ==
    /\ pc = "process"
    /\ max_retries = 3
    /\ calls = 3
    /\ failed_calls = 2
    /\ try_count = 2
    /\ IsSuccess(response, query)
    /\ partner_data = ServerPartner(query)
    /\ AliasData(partner_data, AliasOf(0)).nodes # <<>>

\* C3: a response with ok true whose data has no partner field is handled as a
\* failed call: it consumes an attempt and is not returned to the caller.
C3_MissingFieldIsFailure ==
    (calls >= 1 /\ response.ok /\ ~HasPartnerField(response)) =>
        /\ pc # "process"
        /\ try_count = calls

(***************************************************************************)
(* Properties of the multi-alias fetch and of the whole run.               *)
(***************************************************************************)
\* the pages the API serves for a group: ceil(items / count), one empty page
\* when the group holds nothing
PageCount(group) ==
    LET n == Len(AllNodes(group))
    IN IF n = 0 THEN 1
       ELSE (n + third_party_data_count - 1) \div third_party_data_count

\* the r-th page of a group
PageOf(group, r) ==
    LET all == AllNodes(group)
    IN SubSeq(all, (r - 1) * third_party_data_count + 1,
              Min(r * third_party_data_count, Len(all)))

MaxPageCount(groups) ==
    IF groups = <<>> THEN 0
    ELSE CHOOSE m \in {PageCount(groups[i]) : i \in 1..Len(groups)} :
            \A i \in 1..Len(groups) : PageCount(groups[i]) <= m

\* every page of every group: round by round, by group index within a round
RoundMajor(groups) ==
    Concat([r \in 1..MaxPageCount(groups) |->
        Concat([i \in 1..Len(groups) |->
            IF r <= PageCount(groups[i]) THEN PageOf(groups[i], r) ELSE <<>>])])

Fetching == pc \in {"while", "attempt", "process"}
\* a fetch has returned to the for loop and its locals are still in view
FetchReturned == pc = "for" /\ index >= 1
SomeHasMore == \E a \in DOMAIN alias_has_more_map : alias_has_more_map[a]
QueryAliases == {query[i].alias : i \in 1..Len(query)}
\* the groups of the current fetch that hold no item at all
ZeroGroups ==
    {i \in 1..Len(partitioned_provider_list) : AllNodes(partitioned_provider_list[i]) = <<>>}

\* C4: in a fetch none of whose requests fails, with group i served in p_i
\* pages, the loop never starts a round beyond max(p_i), goes on while fewer
\* rounds are done, and returns after exactly max(p_i) rounds; every round
\* takes a single transport call.
C4_RoundCount ==
    ~request_failed =>
        LET maxp == MaxPageCount(partitioned_provider_list)
        IN /\ Fetching => rounds <= maxp
           /\ (pc = "while" /\ SomeHasMore) => rounds < maxp
           /\ (pc = "while" /\ ~SomeHasMore) => rounds = maxp
           /\ FetchReturned => rounds = maxp
           /\ pc = "process" => calls = 1

C4_Witness ==
    /\ FetchReturned
    /\ ~request_failed
    /\ Len(partitioned_provider_list) = 2
    /\ PageCount(partitioned_provider_list[1]) = 1
    /\ PageCount(partitioned_provider_list[2]) = 2
    /\ rounds = 2

\* C5: when a fetch none of whose requests failed returns, its accumulator
\* holds the nodes of every page of every alias exactly once, round by round
\* and in alias order within a round, each page in the order it was served.
C5_AccumulatorOrder ==
    (FetchReturned /\ ~request_failed) =>
        /\ third_party_data_list = RoundMajor(partitioned_provider_list)
        /\ Len(third_party_data_list) = Len(AllNodes(Concat(partitioned_provider_list)))
        /\ \A i \in 1..Len(third_party_data_list), j \in 1..Len(third_party_data_list) :
                third_party_data_list[i] = third_party_data_list[j] => i = j

C5_Witness ==
    /\ FetchReturned
    /\ ~request_failed
    /\ Len(partitioned_provider_list) = 2
    /\ rounds = 2
    /\ Len(third_party_data_list) = 4
    /\ third_party_data_list[1][1] # third_party_data_list[2][1]
    /\ third_party_data_list[1][1] = third_party_data_list[3][1]

\* C6: an alias whose group holds no item is part of the query of round 1, of
\* no query of a later round, and no node of its providers is accumulated.
C6_ZeroResultAlias ==
    \A i \in ZeroGroups :
        /\ (pc \in {"attempt", "process"} /\ rounds = 1) => AliasOf(i - 1) \in QueryAliases
        /\ (pc \in {"attempt", "process"} /\ rounds >= 2) => AliasOf(i - 1) \notin QueryAliases
        /\ (pc = "while" /\ rounds >= 1) => ~alias_has_more_map[AliasOf(i - 1)]
        /\ \A k \in 1..Len(third_party_data_list) :
              \A j \in 1..Len(partitioned_provider_list[i]) :
                 third_party_data_list[k][1] # partitioned_provider_list[i][j]

C6_Witness ==
    /\ pc = "attempt"
    /\ rounds = 2
    /\ Len(partitioned_provider_list) = 2
    /\ ZeroGroups = {1}
    /\ QueryAliases = {AliasOf(1)}
    /\ third_party_data_list # <<>>

\* C10: the output file is written at most once, and only when the run has
\* ended without an error after the fetch of every outer chunk; once a fetch
\* has ended in an error the run is over: no further chunk is fetched, no
\* further transport call is made and nothing is written.
C10_FailFastInv ==
    /\ Len(output_file) <= 1
    /\ output_file # <<>> =>
            /\ pc = "done"
            /\ error = "none"
            /\ index = Len(partitioned_calls_list)
            /\ output_file[1] = total_third_party_data_list
    /\ error # "none" => (pc = "aborted" /\ output_file = <<>>)

C10_FailFast ==
    /\ []C10_FailFastInv
    /\ [][error # "none" => UNCHANGED vars]_vars

C10_Witness ==
    /\ pc = "aborted"
    /\ error = "RetryExhausted"
    /\ index >= 1
    /\ total_third_party_data_list # <<>>
    /\ output_file = <<>>

(***************************************************************************)
(* Properties of partition_list.                                           *)
(***************************************************************************)
\* C7: for every sequence S and size N > 0, partition_list(S, N) returns
\* normally and the concatenation of its partitions, in order, is exactly S.
C7_PartitionRoundTrip ==
    (pc = "partitioned" /\ partition_size > 0) =>
        /\ partitions.raised = "none"
        /\ Concat(partitions.value) = strings

C7_Witness ==
    /\ pc = "partitioned"
    /\ partition_size = 2
    /\ Len(strings) = 3
    /\ Len(partitions.value) = 2
    /\ Concat(partitions.value) = strings

\* C8: for every sequence S and size N > 0, partition_list(S, N) returns
\* ceil(len(S)/N) partitions, all of length N except the last, whose length is
\* in 1..N; no partition is empty and an empty S gives no partition at all.
C8_PartitionShape ==
    (pc = "partitioned" /\ partition_size > 0) =>
        LET ps == partitions.value
            n == Len(ps)
        IN /\ partitions.raised = "none"
           /\ n * partition_size >= Len(strings)
           /\ (n - 1) * partition_size < Len(strings) \/ n = 0
           /\ \A k \in 1..n : k < n => Len(ps[k]) = partition_size
           /\ \A k \in 1..n : Len(ps[k]) \in 1..partition_size
           /\ strings = <<>> => ps = <<>>

C8_Witness ==
    /\ pc = "partitioned"
    /\ partition_size = 3
    /\ Len(strings) = 4
    /\ Len(partitions.value) = 2
    /\ Len(partitions.value[1]) = 3
    /\ Len(partitions.value[2]) = 1

\* C9: for every size N <= 0 and every sequence S, the empty one included,
\* partition_list(S, N) raises the invalid-argument error (ValueError) and
\* returns no partitions.
C9_PartitionSizeValidation ==
    (pc = "partitioned" /\ partition_size <= 0) =>
        /\ partitions.raised = "ValueError"
        /\ partitions.value = <<>>

C9_Witness ==
    /\ pc = "partitioned"
    /\ partition_size < 0
    /\ strings # <<>>
    /\ partitions.raised = "ValueError"

(***************************************************************************)
(* Retry coverage and identifier coverage of the whole run.                *)
(***************************************************************************)
\* C12: every transport call of the script, the provider-discovery request
\* included, goes through the retry wrapper: the run is aborted over a request
\* that did not succeed only after max_retries + 1 calls were made for it, so
\* with a retry bound >= 1 never after a single failed response.
C12_RetryCoversEveryCall ==
    error \in {"FetchProvidersFailed", "RetryExhausted"} => calls = max_retries + 1

\* the elements of a sequence
Elements(s) == {s[i] : i \in 1..Len(s)}
NoDuplicates(s) == \A i, j \in 1..Len(s) : s[i] = s[j] => i = j

\* the inner groups of outer chunk number c
InnerGroups(c) == partition_list(partitioned_calls_list[c], partition_gql_alias_query_size).value

\* the members of every inner group of every outer chunk, one entry per membership
AllGrouped ==
    Concat([c \in 1..Len(partitioned_calls_list) |-> Concat(InnerGroups(c))])

\* each id under the 0-based chunk index and the alias of the group it sits in
GroupedUnder ==
    UNION {UNION {{<<c - 1, AliasOf(g - 1), InnerGroups(c)[g][j]>> :
                      j \in 1..Len(InnerGroups(c)[g])} :
                  g \in 1..Len(InnerGroups(c))} :
           c \in 1..Len(partitioned_calls_list)}

\* The lists are looked at where the for loop of line 286 stands (they are set
\* before it and never assigned again), the queries where a round has just
\* written one, and the whole of them when the run is over.
C14_CoverageInv ==
    /\ NoDuplicates(provider_list)
    /\ "" \notin Elements(provider_list)
    /\ \A t, u \in queried : t[3] = u[3] => t = u
    /\ pc = "for" =>
          /\ NoDuplicates(Concat(partitioned_calls_list))
          /\ Elements(Concat(partitioned_calls_list)) = Elements(provider_list)
          /\ partition_gql_alias_query_size > 0 =>
                /\ NoDuplicates(AllGrouped)
                /\ Elements(AllGrouped) = Elements(provider_list)
    /\ pc = "attempt" => queried \subseteq GroupedUnder
    /\ pc = "done" =>
          /\ {t[3] : t \in queried} = Elements(provider_list)
          /\ provider_list # <<>> => queried = GroupedUnder

\* C14: the discovered provider ids are collected without duplicates and
\* without the empty ones; every collected id sits in exactly one inner group
\* of exactly one outer chunk; no id is ever queried under two aliases or
\* chunks, and when the run has succeeded every id was queried, under the alias
\* of its group in its chunk.
C14_Coverage ==
    /\ []C14_CoverageInv
    /\ [][pc = "collect" => Elements(provider_list') = Elements(provider_nodes) \ {""}]_vars

\* a successful run over two chunks, discovered from nodes with a duplicate and an empty id
C14_Witness ==
    /\ pc = "done"
    /\ Len(partitioned_calls_list) = 2
    /\ Cardinality(queried) = 2
    /\ total_third_party_data_list # <<>>

(***************************************************************************)
(* The run over the identifiers a..e with both partition sizes 2 and pages  *)
(* of 2 items, from the return of the provider discovery on.               *)
(***************************************************************************)
ScenarioIds == <<"a", "b", "c", "d", "e">>

InitE2E ==
    /\ pc = "for"
    /\ strings = <<>>
    /\ partition_size = 1
    /\ partitions = NotCalled
    /\ partition_total_call_size = 2
    /\ partition_gql_alias_query_size = 2
    /\ third_party_data_count = 2
    /\ max_retries \in {0, MaxRetries}
    \* the group of a and b holds 3 items: a page of 2, then a page of 1
    /\ server_items \in {f \in [Elements(ScenarioIds) -> 0..(MaxItems + 1)] :
                            /\ f["a"] + f["b"] = 3
                            /\ \A id \in {"c", "d", "e"} : f[id] <= MaxItems}
    /\ provider_list = ScenarioIds
    /\ partitioned_calls_list = partition_list(provider_list, partition_total_call_size).value
    /\ index = 0
    /\ partitioned_provider_list = <<>>
    /\ alias_has_more_map = <<>>
    /\ alias_cursor_map = <<>>
    /\ third_party_data_list = <<>>
    /\ active_aliases = <<>>
    /\ query = <<>>
    /\ try_count = 0
    /\ response = NoResponse
    /\ calls = 0
    /\ failed_calls = 0
    /\ partner_data = None
    /\ total_third_party_data_list = <<>>
    /\ output_file = <<>>
    /\ error = "none"
    /\ rounds = 0
    /\ request_failed = FALSE
    /\ api = "sound"
    /\ http = NoHttp
    /\ provider_nodes = <<>>
    /\ queried = {}
    /\ AdvertiserScriptIdle
    /\ PartnerScriptIdle

NextE2E ==
    \/ StartFetch
    \/ BuildQuery
    \/ ExecuteWithRetriesAttempt
    \/ ProcessResponse
    \/ FinishFetch
    \/ WriteOutput

SpecE2E == InitE2E /\ [][NextE2E]_vars

\* the fetch of the first outer chunk is under way / has returned, and every
\* transport call it made so far was answered by the pages of the API
FirstChunkFetching == index = 0 /\ Fetching /\ ~request_failed
FirstChunkFetched == index = 1 /\ pc = "for" /\ ~request_failed

\* C13: for the identifiers a..e and both partition sizes 2 the outer chunks
\* are [a,b], [c,d], [e] and chunk [a,b] is the single alias group [a,b]; the
\* transport answers that group with a page of 2 nodes and hasNextPage true,
\* then a page of 1 node and hasNextPage false; the fetch of the chunk returns
\* after exactly 2 rounds with exactly 3 records.
C13_EndToEnd ==
    /\ partitioned_calls_list = <<<<"a", "b">>, <<"c", "d">>, <<"e">>>>
    /\ FirstChunkFetching =>
          /\ partitioned_provider_list = <<<<"a", "b">>>>
          /\ DOMAIN alias_has_more_map = {AliasOf(0)}
          /\ rounds <= 2
    /\ (FirstChunkFetching /\ pc = "process") =>
          LET page == AliasData(partner_data, AliasOf(0))
          IN /\ rounds = 1 => (Len(page.nodes) = 2 /\ page.pageInfo.hasNextPage)
             /\ rounds = 2 => (Len(page.nodes) = 1 /\ ~page.pageInfo.hasNextPage)
    /\ FirstChunkFetched =>
          /\ rounds = 2
          /\ Len(third_party_data_list) = 3
          /\ total_third_party_data_list = third_party_data_list

C13_Witness ==
    /\ FirstChunkFetched
    /\ rounds = 2
    /\ Len(third_party_data_list) = 3
    /\ server_items["a"] = 2

(***************************************************************************)
(* get_partner_third_party_data called on its own, on any list of at most   *)
(* MaxProviders ids partitioned by any size, against an API whose page-info *)
(* is bound by nothing.                                                    *)
(***************************************************************************)
InitFetch ==
    /\ pc = "for"
    /\ strings = <<>>
    /\ partition_size = 1
    /\ partitions = NotCalled
    /\ partition_total_call_size = MaxProviders
    /\ partition_gql_alias_query_size \in 1..MaxAliasSize
    /\ third_party_data_count = MaxCount
    /\ max_retries = 1
    /\ server_items = [p \in ProviderIds |-> 0]
    /\ provider_list \in {SubSeq(Ids, 1, n) : n \in 0..Min(MaxProviders, Len(Ids))}
    /\ partitioned_calls_list = <<provider_list>>
    /\ index = 0
    /\ partitioned_provider_list = <<>>
    /\ alias_has_more_map = <<>>
    /\ alias_cursor_map = <<>>
    /\ third_party_data_list = <<>>
    /\ active_aliases = <<>>
    /\ query = <<>>
    /\ try_count = 0
    /\ response = NoResponse
    /\ calls = 0
    /\ failed_calls = 0
    /\ partner_data = None
    /\ total_third_party_data_list = <<>>
    /\ output_file = <<>>
    /\ error = "none"
    /\ rounds = 0
    /\ request_failed = FALSE
    /\ api = "any"
    /\ http = NoHttp
    /\ provider_nodes = <<>>
    /\ queried = {}
    /\ AdvertiserScriptIdle
    /\ PartnerScriptIdle

NextFetch ==
    \/ StartFetch
    \/ BuildQuery
    \/ ExecuteWithRetriesAttempt
    \/ ProcessResponse
    \/ FinishFetch

SpecFetch == InitFetch /\ [][NextFetch]_vars

(***************************************************************************)
(* The per-alias state of get_partner_third_party_data, whatever page-info  *)
(* the API returns.                                                        *)
(***************************************************************************)
\* the step is the for loop of lines 257-269 over the response of a round
ProcessStep == pc = "process" /\ pc' = "while"
\* the step is the start of one more round
RoundStep == pc = "while" /\ pc' = "attempt"

\* C15: a has_more flag turns false exactly when the response of the round
\* holds, for that alias, a page-info that reports hasNextPage = false; an
\* alias missing from an ok response does not turn it false.
C15_ExhaustionOnlyOnSignal ==
    [][ProcessStep =>
         \A a \in DOMAIN alias_has_more_map :
            alias_has_more_map[a] =>
               (~alias_has_more_map'[a]
                   <=> /\ a \in DOMAIN partner_data.fields
                       /\ ~partner_data.fields[a].pageInfo.hasNextPage)]_vars

\* C16: an alias for which the round returned a null end cursor is not active
\* in the next round.
C16_NullCursorEndsAlias ==
    [][ProcessStep =>
         \A a \in ProcessedAliases(active_aliases) :
            AliasData(partner_data, a).pageInfo.endCursor = NoCursor
               => ~alias_has_more_map'[a]]_vars

\* C17: within one fetch an alias whose has_more is false keeps has_more false
\* and keeps its cursor, whatever the responses of later rounds hold for it,
\* and the active aliases of a round are among those of the round before.
C17_MonotoneExhaustion ==
    [][/\ pc # "for" =>
            \A a \in DOMAIN alias_has_more_map :
               ~alias_has_more_map[a] =>
                   /\ a \in DOMAIN alias_has_more_map'
                   /\ ~alias_has_more_map'[a]
                   /\ alias_cursor_map'[a] = alias_cursor_map[a]
       /\ (RoundStep /\ rounds >= 1) =>
            Elements(active_aliases') \subseteq Elements(active_aliases)]_vars

\* round 2 has answered an exhausted alias with a page that claims more data
C17_Witness ==
    /\ pc = "while"
    /\ rounds = 2
    /\ \E a \in DOMAIN alias_has_more_map :
          /\ ~alias_has_more_map[a]
          /\ a \notin Elements(active_aliases)
          /\ a \in DOMAIN partner_data.fields
          /\ partner_data.fields[a].pageInfo.hasNextPage

InRound == pc \in {"attempt", "process"}

\* C18: the query of a round has one sub-query for each alias whose has_more
\* is true at the start of the round and for no other alias, all the aliases
\* in round 1; no query is sent for an empty active set, so zero alias groups
\* mean zero requests.
C18_ActiveSetPerRound ==
    /\ InRound =>
          /\ query # <<>>
          /\ NoDuplicates([i \in 1..Len(query) |-> query[i].alias])
          /\ QueryAliases = {a \in DOMAIN alias_has_more_map : alias_has_more_map[a]}
          /\ QueryAliases = Elements(active_aliases)
          /\ rounds = 1 =>
                QueryAliases = {AliasOf(g - 1) : g \in 1..Len(partitioned_provider_list)}
    /\ (pc # "for" /\ partitioned_provider_list = <<>>) =>
          (rounds = 0 /\ calls = 0 /\ queried = {} /\ query = <<>>)

\* round 2 asks for one of two aliases only
C18_Witness ==
    /\ pc = "attempt"
    /\ rounds = 2
    /\ Len(partitioned_provider_list) = 2
    /\ QueryAliases = {AliasOf(1)}
    /\ ~alias_has_more_map[AliasOf(0)]

C19_BindingInv ==
    InRound =>
       \A i \in 1..Len(query) :
          LET after == JsonLoads(query[i].after)
          IN /\ query[i].alias[2] \in 1..Len(partitioned_provider_list)
             /\ JsonLoads(query[i].provider_id_filter)
                   = partitioned_provider_list[query[i].alias[2]]
             /\ rounds = 1 => after = NoCursor
             \* the API's cursors carry the number of the alias they were returned for
             /\ (api = "any" /\ after # NoCursor) => after[1] \div 10 = query[i].alias[2]

\* C19: the sub-query of alias number i is filtered by inner partition i and
\* carries the end cursor that the previous round returned for alias i, no
\* cursor in round 1; it never carries a cursor returned for another alias.
C19_AliasBinding ==
    /\ []C19_BindingInv
    /\ [][(RoundStep /\ rounds >= 1) =>
            \A i \in 1..Len(query') :
               JsonLoads(query'[i].after)
                  = AliasData(partner_data, query'[i].alias).pageInfo.endCursor]_vars

\* round 2 asks for two aliases, each with its own group and its own cursor
C19_Witness ==
    /\ pc = "attempt"
    /\ rounds = 2
    /\ Len(query) = 2
    /\ \A i \in 1..2 : JsonLoads(query[i].after) # NoCursor
    /\ JsonLoads(query[1].after) # JsonLoads(query[2].after)
    /\ JsonLoads(query[1].provider_id_filter) # JsonLoads(query[2].provider_id_filter)

(***************************************************************************)
(* The attempt counter of execute_with_retries over a whole run.           *)
(***************************************************************************)
C20_CounterInv ==
    /\ try_count \in 0..(max_retries + 1)
    /\ calls \in 0..(max_retries + 1)
    /\ failed_calls <= calls
    /\ pc = "attempt" => (try_count <= max_retries /\ calls = try_count)

\* C20: the attempt counter is 0 at the start of every logical request,
\* whatever earlier rounds and chunks consumed, and stays within
\* 0..max_retries + 1; no logical request makes more than max_retries + 1
\* transport calls, so R logical requests make at most R * (max_retries + 1).
C20_CounterPerRequest ==
    /\ []C20_CounterInv
    /\ [][RoundStep => (try_count' = 0 /\ calls' = 0 /\ failed_calls' = 0)]_vars

\* a second round starts with the counter at 0 after the first round of the
\* same fetch has used up a retry
C20_Witness ==
    /\ pc = "attempt"
    /\ rounds = 2
    /\ request_failed
    /\ max_retries = 1
    /\ try_count = 0
    /\ calls = 0

(***************************************************************************)
(* The global accumulator of the third-party run (line 45).                *)
(***************************************************************************)
IsPrefix(s, t) == Len(s) <= Len(t) /\ SubSeq(t, 1, Len(s)) = s

\* the step is the return of a fetch to the for loop (lines 271-273)
FetchReturnStep == pc = "while" /\ pc' = "for"

C21_AccumulatorInv ==
    /\ pc \in {"discover", "collect"} => total_third_party_data_list = <<>>
    /\ pc = "done" => output_file = <<total_third_party_data_list>>
    /\ pc # "done" => output_file = <<>>

\* C21: the global accumulator only grows: each step leaves it alone or, when
\* a fetch returns, appends the result of that fetch to it, the chunks being
\* fetched in their order; what is written at the end of a successful run is
\* the accumulator, i.e. the concatenation of the results of all the chunks.
C21_AppendOnly ==
    /\ []C21_AccumulatorInv
    /\ [][/\ IsPrefix(total_third_party_data_list, total_third_party_data_list')
          /\ FetchReturnStep =>
                /\ total_third_party_data_list'
                      = total_third_party_data_list \o third_party_data_list
                /\ third_party_data_list' = third_party_data_list
                /\ index' = index + 1
          /\ ~FetchReturnStep =>
                /\ total_third_party_data_list' = total_third_party_data_list
                /\ index' = index
          /\ pc' = "done" => (index' = Len(partitioned_calls_list) /\ error' = "none")]_vars

\* a run over two chunks that both returned records has written its output
C21_Witness ==
    /\ pc = "done"
    /\ index = 2
    /\ output_file = <<total_third_party_data_list>>
    /\ \E i, j \in 1..Len(total_third_party_data_list) :
          /\ i < j
          /\ total_third_party_data_list[i][1] = partitioned_calls_list[1][1]
          /\ total_third_party_data_list[j][1] = partitioned_calls_list[2][1]

(***************************************************************************)
(* GetAdvertiserFirstPartyDataGQL.py: query_advertiser against an API whose *)
(* page-info is bound by nothing. Its execute_gql_request (lines 50-76) is  *)
(* the function of the third-party script, line for line.                  *)
(***************************************************************************)
\* the pages the API can return to request number k: up to two nodes of that
\* request, any hasNextPage, and an end cursor that is null, empty or its own
FirstPartyPages(k) ==
    [nodes : {<<>>, <<<<k, 1>>>>, <<<<k, 1>>, <<k, 2>>>>},
     pageInfo : [hasNextPage : BOOLEAN, endCursor : {None, Str(<<>>), Str(<<k>>)}]]

\* response.data holding a firstPartyData page of the advertiser
AdvertiserData(page) == Dict("advertiser" :> Dict("firstPartyData" :> page))

\* the HTTP responses to request number k: one for each way the call can end
AdvertiserHttpResponses(k) ==
    { [ok |-> FALSE, body |-> JsonBody("errors" :> ApiErrors)],
      [ok |-> FALSE, body |-> MalformedBody],
      [ok |-> TRUE, body |-> EmptyBody],
      [ok |-> TRUE, body |-> JsonBody("data" :> None)] }
    \cup {[ok |-> o, body |-> JsonBody("data" :> AdvertiserData(page))] :
            o \in BOOLEAN, page \in FirstPartyPages(k)}

AfterClause_always(c) == c
\* line 82: after_clause = f'after: "{cursor}",' if cursor else ''
AfterClause(c) == IF Truthy(c) THEN c ELSE None

RequestFailed_never(ok) == FALSE
\* lines 117-119: if not request_success: raise
RequestFailed(ok) == ~ok

\* subscripting data down to ['advertiser']['firstPartyData']: the exception
\* raised on the way, or "none"
FirstPartyDataError(data) ==
    IF data.kind = "None" THEN "TypeError"
    ELSE IF "advertiser" \notin DOMAIN data.fields THEN "KeyError"
    ELSE "none"
FirstPartyDataOf(data) == data.fields["advertiser"].fields["firstPartyData"]

\* lines 129-131 and 80-121: one more request
GetAdvertiserFirstPartyData ==
    /\ pc = "adv_while"
    /\ has_next
    /\ calls < MaxPages
    /\ after_clause' = AfterClause(cursor)
    /\ calls' = calls + 1
    /\ \E h \in AdvertiserHttpResponses(calls + 1) :
         LET got == execute_gql_request(h)
         IN /\ http' = h
            /\ IF got.raised # "none"
               THEN /\ pc' = UncaughtException(got.raised).pc
                    /\ error' = UncaughtException(got.raised).error
                    /\ UNCHANGED <<response, advertiser_data>>
               ELSE /\ response' = got.response
                    /\ IF RequestFailed(got.response.ok)
                       THEN /\ pc' = UncaughtException("FetchFailed").pc
                            /\ error' = UncaughtException("FetchFailed").error
                            /\ UNCHANGED advertiser_data
                       ELSE /\ advertiser_data' = got.response.data
                            /\ pc' = "adv_page"
                            /\ error' = error
    /\ UNCHANGED <<tpvars, pfpvars, partner_data, output_file, has_next, cursor,
                   first_party_data>>

\* lines 134-139: the nodes are appended and the pagination state updated
AppendAdvertiserPage ==
    /\ pc = "adv_page"
    /\ IF FirstPartyDataError(advertiser_data) # "none"
       THEN /\ pc' = UncaughtException(FirstPartyDataError(advertiser_data)).pc
            /\ error' = UncaughtException(FirstPartyDataError(advertiser_data)).error
            /\ UNCHANGED <<first_party_data, has_next, cursor>>
       ELSE /\ first_party_data' = first_party_data \o FirstPartyDataOf(advertiser_data).nodes
            /\ has_next' = FirstPartyDataOf(advertiser_data).pageInfo.hasNextPage
            /\ cursor' = FirstPartyDataOf(advertiser_data).pageInfo.endCursor
            /\ pc' = "adv_while"
            /\ error' = error
    /\ UNCHANGED <<tpvars, pfpvars, partner_data, output_file, advertiser_data,
                   after_clause, response, calls, http>>

\* lines 141-143: the loop is over, the output is written
WriteAdvertiserOutput ==
    /\ pc = "adv_while"
    /\ ~has_next
    /\ output_file' = Append(output_file, first_party_data)
    /\ pc' = "done"
    /\ UNCHANGED <<tpvars, pfpvars, advvars, partner_data, response, calls, error, http>>

InitAdvertiser ==
    /\ pc = "adv_while"
    /\ strings = <<>>
    /\ partition_size = 1
    /\ partitions = NotCalled
    /\ ScriptIdle
    /\ AdvertiserScriptIdle
    /\ PartnerScriptIdle

NextAdvertiser ==
    \/ GetAdvertiserFirstPartyData
    \/ AppendAdvertiserPage
    \/ WriteAdvertiserOutput

SpecAdvertiser == InitAdvertiser /\ [][NextAdvertiser]_vars

\* the page of the last response that query_advertiser has processed
LastAdvertiserPage == FirstPartyDataOf(advertiser_data)

\* the nodes are in the order of the requests and, within one page, of the page
InFetchOrder(list) ==
    \A i, j \in 1..Len(list) :
        i < j => \/ list[i][1] < list[j][1]
                 \/ (list[i][1] = list[j][1] /\ list[i][2] < list[j][2])

AdvertiserRequestStep == pc = "adv_while" /\ calls' = calls + 1
AdvertiserPageStep == pc = "adv_page" /\ pc' = "adv_while"

C22_PaginationInv ==
    /\ InFetchOrder(first_party_data)
    /\ (pc = "adv_while" /\ calls >= 1) =>
          has_next = LastAdvertiserPage.pageInfo.hasNextPage
    /\ pc = "done" =>
          /\ calls >= 1
          /\ ~LastAdvertiserPage.pageInfo.hasNextPage
          /\ output_file = <<first_party_data>>
    /\ (pc # "adv_while" /\ calls = 1) => after_clause = None

\* C22: query_advertiser sends at least one request, the first without a
\* cursor; each later request is sent only after a response with hasNextPage
\* true and carries the end cursor of that response, or no cursor when that
\* end cursor is null or empty; after the first response with hasNextPage
\* false nothing more is requested and the output is written; the output is
\* the nodes of the fetched pages in fetch order.
C22_SingleCursorPagination ==
    /\ []C22_PaginationInv
    /\ [][/\ AdvertiserRequestStep =>
               /\ calls = 0 => after_clause' = None
               /\ calls >= 1 =>
                     /\ LastAdvertiserPage.pageInfo.hasNextPage
                     /\ after_clause' =
                           IF LastAdvertiserPage.pageInfo.endCursor \in {None, Str(<<>>)}
                           THEN None
                           ELSE LastAdvertiserPage.pageInfo.endCursor
          /\ AdvertiserPageStep =>
               first_party_data' = first_party_data \o LastAdvertiserPage.nodes
          /\ (pc = "adv_while" /\ ~has_next) => (pc' = "done" /\ calls' = calls)]_vars

\* three pages were fetched, the third again without a cursor because the
\* second response had hasNextPage true and an empty end cursor
C22_Witness ==
    /\ pc = "done"
    /\ calls = 3
    /\ after_clause = None
    /\ Len(first_party_data) >= 3
    /\ first_party_data[1][1] = 1
    /\ first_party_data[Len(first_party_data)][1] = 3

(***************************************************************************)
(* GetPartnerFirstPartyDataGQL.py: query_partner_first_party_data against   *)
(* an API that holds the advertisers of server_items, in the order of Ids,  *)
(* and server_items[id] first-party data items for advertiser id.          *)
(***************************************************************************)
ServerAdvertisers == SelectSeq(Ids, LAMBDA id : id \in DOMAIN server_items)

NameOf(id) ==
    CASE id = "a" -> "A" [] id = "b" -> "B" [] id = "c" -> "C"
      [] id = "d" -> "D" [] id = "e" -> "E" [] OTHER -> "F"

\* an advertiser node {id, name}; the API has no name for advertiser b
AdvertiserNode(id) ==
    IF id = "b" THEN Dict("id" :> id) ELSE Dict(("id" :> id) @@ ("name" :> NameOf(id)))

\* the position a cursor stands for: null is the start of the list
CursorOffset(c) == IF c.kind = "None" THEN 0 ELSE c.fields[1]

\* first: n, after: c over the list all
PageOfList(all, c, n) ==
    LET start == Min(CursorOffset(c), Len(all))
        nodes == SubSeq(all, start + 1, Min(start + n, Len(all)))
    IN [nodes |-> nodes,
        pageInfo |-> [hasNextPage |-> start + n < Len(all),
                      endCursor |-> IF nodes = <<>> THEN None
                                    ELSE Str(<<start + Len(nodes)>>)]]

\* partner.advertisers(first:, after:) and advertiser.firstPartyData(first:, after:)
ServerAdvertisersPage(vs) ==
    PageOfList([i \in 1..Len(ServerAdvertisers) |-> AdvertiserNode(ServerAdvertisers[i])],
               vs.advertiserCursor, vs.advertiserCount)
ServerFirstPartyPage(vs) ==
    PageOfList(IF vs.advertiserId \in DOMAIN server_items
               THEN [j \in 1..server_items[vs.advertiserId] |-> <<vs.advertiserId, j>>]
               ELSE <<>>,
               vs.firstPartyDataCursor, vs.firstPartyDataCount)

PartnerData(page) == Dict("partner" :> Dict("advertisers" :> page))

\* the HTTP responses to a request whose data a healthy API answers with good
FirstPartyHttpResponses(good) ==
    { [ok |-> FALSE, body |-> JsonBody("errors" :> ApiErrors)],
      [ok |-> FALSE, body |-> MalformedBody],
      [ok |-> FALSE, body |-> JsonBody("data" :> good)],
      [ok |-> TRUE, body |-> EmptyBody],
      [ok |-> TRUE, body |-> JsonBody("data" :> None)],
      [ok |-> TRUE, body |-> JsonBody("data" :> good)] }

\* subscripting data down to ['partner']['advertisers']
PartnerDataError(data) ==
    IF data.kind = "None" THEN "TypeError"
    ELSE IF "partner" \notin DOMAIN data.fields THEN "KeyError"
    ELSE "none"
AdvertisersOf(data) == data.fields["partner"].fields["advertisers"]

\* lines 185-186: the node with advertiserId and advertiserName set
Annotate(node, id, name) == [node |-> node, advertiserId |-> id, advertiserName |-> name]

\* lines 163-167 and 82-112: one more page of advertisers
GetPartnerAdvertisers ==
    /\ pc = "p_while"
    /\ advertiser_has_next
    /\ LET vs == [advertiserCount |-> advertiser_count, advertiserCursor |-> advertiser_cursor]
       IN /\ variables' = vs
          /\ calls' = calls + 1
          /\ \E h \in FirstPartyHttpResponses(PartnerData(ServerAdvertisersPage(vs))) :
               LET got == execute_gql_request(h)
                   err == IF got.raised # "none" THEN got.raised
                          ELSE IF RequestFailed(got.response.ok) THEN "FetchFailed"
                          ELSE PartnerDataError(got.response.data)
               IN /\ http' = h
                  /\ response' = IF got.raised # "none" THEN response ELSE got.response
                  /\ partner_data' = IF got.raised # "none" \/ RequestFailed(got.response.ok)
                                     THEN partner_data ELSE got.response.data
                  /\ IF err # "none"
                     THEN /\ pc' = UncaughtException(err).pc
                          /\ error' = UncaughtException(err).error
                          /\ UNCHANGED <<advertisers, advertiser_index>>
                     ELSE /\ advertisers' = AdvertisersOf(got.response.data).nodes
                          /\ advertiser_index' = 0
                          /\ pc' = "p_for"
                          /\ error' = error
    /\ UNCHANGED <<tpvars, advvars, output_file, advertiser_has_next, advertiser_cursor,
                   first_party_data_list, advertiser_id, advertiser_name,
                   first_party_has_next, first_party_cursor, first_party_data_response,
                   advertiser_count, first_party_data_count>>

FreshCursor_leaked(previous) == previous
\* line 175: first_party_cursor = None, whatever the cursor of the advertiser before
FreshCursor(previous) == None

\* lines 169-175: the for loop takes the next advertiser of the page
StartAdvertiser ==
    /\ pc = "p_for"
    /\ advertiser_index < Len(advertisers)
    /\ advertiser_id' = advertisers[advertiser_index + 1].fields["id"]
    /\ advertiser_name' = DictGet(advertisers[advertiser_index + 1], "name", "Unknown Advertiser")
    /\ first_party_has_next' = TRUE
    /\ first_party_cursor' = FreshCursor(first_party_cursor)
    /\ pc' = "p_inner"
    /\ UNCHANGED <<tpvars, advvars, output_file, partner_data, response, calls, error, http,
                   advertiser_has_next, advertiser_cursor, first_party_data_list,
                   advertisers, advertiser_index, first_party_data_response, variables,
                   advertiser_count, first_party_data_count>>

\* lines 177-179 and 115-154: one more page of the advertiser's first-party data
GetFirstPartyDataPage ==
    /\ pc = "p_inner"
    /\ first_party_has_next
    /\ LET vs == [advertiserId |-> advertiser_id,
                  firstPartyDataCount |-> first_party_data_count,
                  firstPartyDataCursor |-> first_party_cursor]
       IN /\ variables' = vs
          /\ calls' = calls + 1
          /\ \E h \in FirstPartyHttpResponses(AdvertiserData(ServerFirstPartyPage(vs))) :
               LET got == execute_gql_request(h)
               IN /\ http' = h
                  /\ IF got.raised # "none"
                     THEN /\ pc' = UncaughtException(got.raised).pc
                          /\ error' = UncaughtException(got.raised).error
                          /\ UNCHANGED <<response, first_party_data_response>>
                     ELSE /\ response' = got.response
                          /\ IF RequestFailed(got.response.ok)
                             THEN /\ pc' = UncaughtException("FetchFailed").pc
                                  /\ error' = UncaughtException("FetchFailed").error
                                  /\ UNCHANGED first_party_data_response
                             ELSE /\ first_party_data_response' = got.response.data
                                  /\ pc' = "p_page"
                                  /\ error' = error
    /\ UNCHANGED <<tpvars, advvars, output_file, partner_data, advertiser_has_next,
                   advertiser_cursor, first_party_data_list, advertisers, advertiser_index,
                   advertiser_id, advertiser_name, first_party_has_next, first_party_cursor,
                   advertiser_count, first_party_data_count>>

\* lines 181-190: the nodes are annotated and appended, the inner pagination
\* state is updated
AppendFirstPartyPage ==
    /\ pc = "p_page"
    /\ IF FirstPartyDataError(first_party_data_response) # "none"
       THEN /\ pc' = UncaughtException(FirstPartyDataError(first_party_data_response)).pc
            /\ error' = UncaughtException(FirstPartyDataError(first_party_data_response)).error
            /\ UNCHANGED <<first_party_data_list, first_party_has_next, first_party_cursor>>
       ELSE LET page == FirstPartyDataOf(first_party_data_response)
            IN /\ first_party_data_list' =
                     first_party_data_list
                        \o [i \in 1..Len(page.nodes) |->
                              Annotate(page.nodes[i], advertiser_id, advertiser_name)]
               /\ first_party_has_next' = page.pageInfo.hasNextPage
               /\ first_party_cursor' = page.pageInfo.endCursor
               /\ pc' = "p_inner"
               /\ error' = error
    /\ UNCHANGED <<tpvars, advvars, output_file, partner_data, response, calls, http,
                   advertiser_has_next, advertiser_cursor, advertisers, advertiser_index,
                   advertiser_id, advertiser_name, first_party_data_response, variables,
                   advertiser_count, first_party_data_count>>

\* lines 177, 192: the inner loop is over, the for loop goes on
FinishAdvertiser ==
    /\ pc = "p_inner"
    /\ ~first_party_has_next
    /\ advertiser_index' = advertiser_index + 1
    /\ pc' = "p_for"
    /\ UNCHANGED <<tpvars, advvars, output_file, partner_data, response, calls, error, http,
                   advertiser_has_next, advertiser_cursor, first_party_data_list,
                   advertisers, advertiser_id, advertiser_name, first_party_has_next,
                   first_party_cursor, first_party_data_response, variables,
                   advertiser_count, first_party_data_count>>

\* lines 194-195: the for loop is over, the outer pagination state is updated
FinishAdvertiserPage ==
    /\ pc = "p_for"
    /\ advertiser_index >= Len(advertisers)
    /\ advertiser_has_next' = AdvertisersOf(partner_data).pageInfo.hasNextPage
    /\ advertiser_cursor' = AdvertisersOf(partner_data).pageInfo.endCursor
    /\ pc' = "p_while"
    /\ UNCHANGED <<tpvars, advvars, output_file, partner_data, response, calls, error, http,
                   first_party_data_list, advertisers, advertiser_index, advertiser_id,
                   advertiser_name, first_party_has_next, first_party_cursor,
                   first_party_data_response, variables, advertiser_count,
                   first_party_data_count>>

\* lines 197-199: the outer loop is over, the output is written
WritePartnerOutput ==
    /\ pc = "p_while"
    /\ ~advertiser_has_next
    /\ output_file' = Append(output_file, first_party_data_list)
    /\ pc' = "done"
    /\ UNCHANGED <<tpvars, advvars, pfpvars, partner_data, response, calls, error, http>>

\* the data an API can hold: up to MaxAdvertisers advertisers, each with up to
\* MaxItems first-party data items
FirstPartyServerData ==
    UNION {[{Ids[i] : i \in 1..n} -> 0..MaxItems] : n \in 0..Min(MaxAdvertisers, Len(Ids))}

InitPartnerFirstParty ==
    /\ pc = "p_while"
    /\ strings = <<>>
    /\ partition_size = 1
    /\ partitions = NotCalled
    /\ server_items \in FirstPartyServerData
    /\ partition_total_call_size = 1
    /\ partition_gql_alias_query_size = 1
    /\ third_party_data_count = 1
    /\ max_retries = 0
    /\ provider_list = <<>>
    /\ partitioned_calls_list = <<>>
    /\ index = 0
    /\ partitioned_provider_list = <<>>
    /\ alias_has_more_map = <<>>
    /\ alias_cursor_map = <<>>
    /\ third_party_data_list = <<>>
    /\ active_aliases = <<>>
    /\ query = <<>>
    /\ try_count = 0
    /\ response = NoResponse
    /\ calls = 0
    /\ failed_calls = 0
    /\ partner_data = None
    /\ total_third_party_data_list = <<>>
    /\ output_file = <<>>
    /\ error = "none"
    /\ rounds = 0
    /\ request_failed = FALSE
    /\ api = "sound"
    /\ http = NoHttp
    /\ provider_nodes = <<>>
    /\ queried = {}
    /\ AdvertiserScriptIdle
    /\ advertiser_has_next = TRUE
    /\ advertiser_cursor = None
    /\ first_party_data_list = <<>>
    /\ advertisers = <<>>
    /\ advertiser_index = 0
    /\ advertiser_id = None
    /\ advertiser_name = None
    /\ first_party_has_next = TRUE
    /\ first_party_cursor = None
    /\ first_party_data_response = None
    /\ variables = None
    /\ advertiser_count \in 1..MaxCount
    /\ first_party_data_count \in 1..MaxCount

NextPartnerFirstParty ==
    \/ GetPartnerAdvertisers
    \/ StartAdvertiser
    \/ GetFirstPartyDataPage
    \/ AppendFirstPartyPage
    \/ FinishAdvertiser
    \/ FinishAdvertiserPage
    \/ WritePartnerOutput

SpecPartnerFirstParty == InitPartnerFirstParty /\ [][NextPartnerFirstParty]_vars

\* the name the records of advertiser id are to carry
ExpectedName(id) == IF id = "b" THEN "Unknown Advertiser" ELSE NameOf(id)

\* every item of every advertiser, advertiser by advertiser in the API's
\* order, each annotated with its advertiser
ExpectedFirstPartyList ==
    Concat([i \in 1..Len(ServerAdvertisers) |->
              [j \in 1..server_items[ServerAdvertisers[i]] |->
                  Annotate(<<ServerAdvertisers[i], j>>, ServerAdvertisers[i],
                           ExpectedName(ServerAdvertisers[i]))]])

InnerLoop == pc \in {"p_inner", "p_page"}

C23_IsolationInv ==
    /\ \A i \in 1..Len(first_party_data_list) :
          /\ first_party_data_list[i].advertiserId = first_party_data_list[i].node[1]
          /\ first_party_data_list[i].advertiserName
                = ExpectedName(first_party_data_list[i].node[1])
    /\ InnerLoop =>
          /\ advertiser_index < Len(advertisers)
          /\ advertiser_id = advertisers[advertiser_index + 1].fields["id"]
    /\ pc = "p_page" =>
          /\ variables.advertiserId = advertiser_id
          /\ variables.firstPartyDataCursor = first_party_cursor
    /\ pc = "done" =>
          /\ first_party_data_list = ExpectedFirstPartyList
          /\ output_file = <<first_party_data_list>>

\* C23: for every advertiser of every advertiser page the inner loop starts
\* with has_next true and no cursor, whatever the advertiser before left; its
\* requests carry the advertiser's id and the end cursor of its own previous
\* page; the for loop moves on only after a page of that advertiser with
\* hasNextPage false, and the next advertiser page is requested only after the
\* last advertiser of the page; every record carries the id and name of the
\* advertiser it was fetched for, and a run that ends holds every advertiser's
\* items, advertiser by advertiser.
C23_NestedPagination ==
    /\ []C23_IsolationInv
    /\ [][/\ (pc = "p_for" /\ pc' = "p_inner") =>
               /\ first_party_has_next'
               /\ first_party_cursor' = None
               /\ advertiser_id' = advertisers[advertiser_index + 1].fields["id"]
          /\ first_party_cursor' # first_party_cursor =>
               \/ pc = "p_for" /\ pc' = "p_inner"
               \/ /\ pc = "p_page"
                  /\ first_party_cursor'
                        = FirstPartyDataOf(first_party_data_response).pageInfo.endCursor
          /\ (pc = "p_inner" /\ pc' = "p_for") =>
               /\ variables.advertiserId = advertiser_id
               /\ ~FirstPartyDataOf(first_party_data_response).pageInfo.hasNextPage
               /\ advertiser_index' = advertiser_index + 1
          /\ (pc = "p_while" /\ calls' = calls + 1) =>
               /\ advertiser_index = Len(advertisers)
               /\ calls >= 1 =>
                     /\ AdvertisersOf(partner_data).pageInfo.hasNextPage
                     /\ variables'.advertiserCursor
                           = AdvertisersOf(partner_data).pageInfo.endCursor]_vars

\* the run has ended over two advertiser pages; the first advertiser needed
\* two pages, so the second one started after a non-null cursor
C23_Witness ==
    /\ pc = "done"
    /\ advertiser_count = 1
    /\ first_party_data_count = 1
    /\ Len(ServerAdvertisers) = 2
    /\ server_items["a"] = 2
    /\ server_items["b"] = 1
    /\ Len(first_party_data_list) = 3
    /\ first_party_data_list[3].advertiserId = "b"

(***************************************************************************)
(* Both first-party scripts: a run is a run of either script.               *)
(***************************************************************************)
InitFirstParty == InitAdvertiser \/ InitPartnerFirstParty

NextFirstParty ==
    \/ NextAdvertiser
    \/ NextPartnerFirstParty

SpecFirstParty == InitFirstParty /\ [][NextFirstParty]_vars

\* a request was made and its transport response has ok = false
TransportFailed == calls >= 1 /\ ~http.ok

C24_AbortInv ==
    /\ TransportFailed =>
          /\ pc = "aborted"
          /\ error \in {"FetchFailed", "JSONDecodeError"}
          /\ output_file = <<>>
    /\ pc # "done" => output_file = <<>>

\* C24: in both first-party scripts the first transport response with
\* ok = false leaves the run aborted by an exception with the output file
\* unwritten, and no step follows it: no further request, no append, no
\* write, however many pages were accumulated before.
C24_NoRetryFirstParty ==
    /\ []C24_AbortInv
    /\ [][/\ ~TransportFailed
          /\ calls' \in {calls, calls + 1}
          /\ (calls' = calls + 1 /\ ~http'.ok) => pc' = "aborted"]_vars

\* the partner script is aborted by a failed response to a later request,
\* with annotated records of earlier pages already accumulated
C24_Witness ==
    /\ pc = "aborted"
    /\ error = "FetchFailed"
    /\ ~http.ok
    /\ calls >= 3
    /\ first_party_data_list # <<>>
    /\ output_file = <<>>

\* the same for the advertiser script
C24_WitnessAdvertiser ==
    /\ pc = "aborted"
    /\ error = "FetchFailed"
    /\ ~http.ok
    /\ calls >= 2
    /\ first_party_data # <<>>
    /\ output_file = <<>>

====
